---- MODULE Spec2Model ----
(***************************************************************************)
(* tk-http: the server-side WebSocket opening-handshake check              *)
(* (src/server/websocket.rs, get_handshake) and the connection policy      *)
(* builder (src/websocket/config.rs, Config).                              *)
(*                                                                         *)
(* Header names and values are byte strings: sequences of numbers 0..255.  *)
(* Decoded text (&str, String) is a sequence of Unicode code points.       *)
(* Option<T> is a sequence of length at most one: None is <<>>, Some(x)    *)
(* is <<x>>.  The unit value () is the empty tuple.                        *)
(***************************************************************************)
EXTENDS Integers, Sequences, FiniteSets, TLC

VARIABLES
    req,         \* the request head handed to get_handshake
    pc,          \* position in get_handshake: "start", "scan", "done"
    i,           \* index of the next header of req.all_headers() to scan
    upgrade,     \* let mut upgrade
    version,     \* let mut version
    accept,      \* let mut accept: Option<Accept>
    protocols,   \* let mut protocols: Vec<String>
    extensions,  \* let mut extensions: Vec<String>
    ret,         \* the value get_handshake returned (Pending before it returns)
    log,         \* the debug!() records emitted, in order
    derived,     \* the arguments of the Accept::from_key_bytes calls, in order
    cfg,         \* the Config under construction (the builder)
    handles,     \* the Arc<Config> handles handed out by done(), in order
    setters,     \* number of setter calls made on the builder so far
    called,      \* names of the setters called on the builder so far
    reads        \* what connection tasks have read: <<handle index, Config>>

hsvars == <<req, pc, i, upgrade, version, accept, protocols, extensions,
            ret, log, derived>>
cfgvars == <<cfg, handles, setters, called, reads>>
vars == <<hsvars, cfgvars>>

(***************************************************************************)
(* Option, Result                                                          *)
(***************************************************************************)
None == <<>>
Some(x) == <<x>>
Unit == <<>>
Ok(x) == [tag |-> "Ok", val |-> x]
Err(e) == [tag |-> "Err", val |-> e]
Pending == [tag |-> "Pending", val |-> <<>>]

(***************************************************************************)
(* Byte and text helpers                                                   *)
(***************************************************************************)
to_ascii_lowercase(b) == IF b \in 65..90 THEN b + 32 ELSE b

eq_ignore_ascii_case(a, b) ==
    /\ Len(a) = Len(b)
    /\ \A k \in 1..Len(a) : to_ascii_lowercase(a[k]) = to_ascii_lowercase(b[k])

\* matches!(b, b'\r' | b'\n' | b' ' | b'\t')
trim_byte(b) == b \in {13, 10, 32, 9}

RECURSIVE trim_front(_)
trim_front(x) ==
    IF Len(x) > 0 /\ trim_byte(x[1]) THEN trim_front(Tail(x)) ELSE x

RECURSIVE trim_back(_)
trim_back(x) ==
    IF Len(x) > 0 /\ trim_byte(x[Len(x)])
    THEN trim_back(SubSeq(x, 1, Len(x) - 1))
    ELSE x

bytes_trim(x) == trim_back(trim_front(x))

\* A continuation byte 10xxxxxx at position k of v.
utf8_cont(v, k) == k <= Len(v) /\ v[k] \in 128..191

\* Width of the well-formed UTF-8 sequence that starts at v[k], 0 if none.
utf8_width(v, k) ==
    LET b == v[k] IN
    IF b < 128 THEN 1
    ELSE IF b \in 194..223 /\ utf8_cont(v, k + 1) THEN 2
    ELSE IF b = 224 /\ k + 1 <= Len(v) /\ v[k + 1] \in 160..191
            /\ utf8_cont(v, k + 2) THEN 3
    ELSE IF b \in (225..236) \cup (238..239) /\ utf8_cont(v, k + 1)
            /\ utf8_cont(v, k + 2) THEN 3
    ELSE IF b = 237 /\ k + 1 <= Len(v) /\ v[k + 1] \in 128..159
            /\ utf8_cont(v, k + 2) THEN 3
    ELSE IF b = 240 /\ k + 1 <= Len(v) /\ v[k + 1] \in 144..191
            /\ utf8_cont(v, k + 2) /\ utf8_cont(v, k + 3) THEN 4
    ELSE IF b \in 241..243 /\ utf8_cont(v, k + 1) /\ utf8_cont(v, k + 2)
            /\ utf8_cont(v, k + 3) THEN 4
    ELSE IF b = 244 /\ k + 1 <= Len(v) /\ v[k + 1] \in 128..143
            /\ utf8_cont(v, k + 2) /\ utf8_cont(v, k + 3) THEN 4
    ELSE 0

\* The code point encoded by the w bytes at v[k].
utf8_char(v, k, w) ==
    IF w = 1 THEN v[k]
    ELSE IF w = 2 THEN (v[k] - 192) * 64 + (v[k + 1] - 128)
    ELSE IF w = 3 THEN (v[k] - 224) * 4096 + (v[k + 1] - 128) * 64
                       + (v[k + 2] - 128)
    ELSE (v[k] - 240) * 262144 + (v[k + 1] - 128) * 4096
         + (v[k + 2] - 128) * 64 + (v[k + 3] - 128)

RECURSIVE utf8_run(_, _, _)
utf8_run(v, k, acc) ==
    IF k > Len(v) THEN Ok(acc)
    ELSE LET w == utf8_width(v, k) IN
         IF w = 0 THEN Err(Unit)
         ELSE utf8_run(v, k + w, Append(acc, utf8_char(v, k, w)))

\* std::str::from_utf8: Ok(text) or Err on the first ill-formed sequence.
from_utf8(v) == utf8_run(v, 1, <<>>)

\* char::is_whitespace (Unicode White_Space), what str::trim strips.
is_whitespace(c) ==
    c \in (9..13) \cup {32, 133, 160, 5760} \cup (8192..8202)
          \cup {8232, 8233, 8239, 8287, 12288}

RECURSIVE trim_start(_)
trim_start(s) ==
    IF Len(s) > 0 /\ is_whitespace(s[1]) THEN trim_start(Tail(s)) ELSE s

RECURSIVE trim_end(_)
trim_end(s) ==
    IF Len(s) > 0 /\ is_whitespace(s[Len(s)])
    THEN trim_end(SubSeq(s, 1, Len(s) - 1))
    ELSE s

\* str::trim
trim(s) == trim_end(trim_start(s))

\* str::split(','): the pieces between commas, empty pieces included.
RECURSIVE split_from(_, _, _)
split_from(s, k, piece) ==
    IF k > Len(s) THEN <<piece>>
    ELSE IF s[k] = 44 THEN <<piece>> \o split_from(s, k + 1, <<>>)
    ELSE split_from(s, k + 1, Append(piece, s[k]))

split(s) == split_from(s, 1, <<>>)

\* tokens.split(",").map(|x| x.trim()).filter(|x| x.len() > 0)
\*       .map(|x| x.to_string())
RECURSIVE trimmed_nonempty(_)
trimmed_nonempty(pieces) ==
    IF pieces = <<>> THEN <<>>
    ELSE LET t == trim(Head(pieces)) IN
         (IF Len(t) > 0 THEN <<t>> ELSE <<>>) \o trimmed_nonempty(Tail(pieces))

tokens_of(text) == trimmed_nonempty(split(text))


\* One maximal ill-formed subpart at v[k]: the number of bytes that
\* String::from_utf8_lossy replaces by a single U+FFFD.
utf8_bad_len(v, k) ==
    LET b == v[k]
        second_ok ==
            /\ k + 1 <= Len(v)
            /\ v[k + 1] \in (CASE b = 224 -> 160..191
                               [] b = 237 -> 128..159
                               [] b = 240 -> 144..191
                               [] b = 244 -> 128..143
                               [] OTHER -> 128..191)
    IN  IF b \in 224..239 THEN (IF second_ok THEN 2 ELSE 1)
        ELSE IF b \in 240..244
             THEN (IF ~second_ok THEN 1
                   ELSE IF utf8_cont(v, k + 2) THEN 3 ELSE 2)
        ELSE 1

RECURSIVE lossy_run(_, _, _)
lossy_run(v, k, acc) ==
    IF k > Len(v) THEN acc
    ELSE LET w == utf8_width(v, k) IN
         IF w = 0
         THEN lossy_run(v, k + utf8_bad_len(v, k), Append(acc, 65533))
         ELSE lossy_run(v, k + w, Append(acc, utf8_char(v, k, w)))

\* String::from_utf8_lossy
from_utf8_lossy(v) == lossy_run(v, 1, <<>>)

(***************************************************************************)
(* Literals of get_handshake                                               *)
(***************************************************************************)
\* "upgrade"
UPGRADE_TOKEN == <<117, 112, 103, 114, 97, 100, 101>>
\* b"websocket"
WEBSOCKET == <<119, 101, 98, 115, 111, 99, 107, 101, 116>>
\* b"13"
VERSION_13 == <<49, 51>>
\* "Sec-WebSocket-Key"
SEC_WEBSOCKET_KEY ==
    <<83, 101, 99, 45, 87, 101, 98, 83, 111, 99, 107, 101, 116, 45,
      75, 101, 121>>
\* "Sec-WebSocket-Version"
SEC_WEBSOCKET_VERSION ==
    <<83, 101, 99, 45, 87, 101, 98, 83, 111, 99, 107, 101, 116, 45,
      86, 101, 114, 115, 105, 111, 110>>
\* "Sec-WebSocket-Protocol"
SEC_WEBSOCKET_PROTOCOL ==
    <<83, 101, 99, 45, 87, 101, 98, 83, 111, 99, 107, 101, 116, 45,
      80, 114, 111, 116, 111, 99, 111, 108>>
\* "Sec-WebSocket-Extensions"
SEC_WEBSOCKET_EXTENSIONS ==
    <<83, 101, 99, 45, 87, 101, 98, 83, 111, 99, 107, 101, 116, 45,
      69, 120, 116, 101, 110, 115, 105, 111, 110, 115>>
\* "Upgrade"
UPGRADE_HEADER == <<85, 112, 103, 114, 97, 100, 101>>

\* The debug!() records: <<message, argument>>.
LogInvalidTarget == <<"Invalid request-target for websocket request", <<>>>>
LogDuplicateKey == <<"Duplicate Sec-WebSocket-Key", <<>>>>
LogBadVersion(value) == <<"Bad websocket version {:?}", from_utf8_lossy(value)>>
LogBadProtocol == <<"Bad utf-8 in Sec-Websocket-Protocol", <<>>>>
LogBadExtensions == <<"Bad utf-8 in Sec-Websocket-Extensions", <<>>>>
LogPayload == <<"Websocket handshake has payload", <<>>>>
LogNoUpgrade == <<"No upgrade header for a websocket", <<>>>>
LogNoRequired == <<"No required headers for a websocket", <<>>>>

\* websocket::Accept::from_key_bytes: the accept value of a key, a pure
\* function of the key bytes whose result is never inspected here.
from_key_bytes(key) == [accept_of |-> key]

(***************************************************************************)
(* get_handshake, as a function of the request.  The locals and the side   *)
(* effects travel in a record st: upgrade, version, accept, protocols,     *)
(* extensions, ret (Pending until a return statement runs), log, derived.  *)
(***************************************************************************)
Returned(st, value) == [st EXCEPT !.ret = value]
Logged(st, record) == [st EXCEPT !.log = Append(@, record)]

\* req.connection_header().map(|x| x.split(',').any(|tok|
\*     tok.trim().eq_ignore_ascii_case("upgrade")))
conn_upgrade(r) ==
    IF r.conn = None THEN None
    ELSE LET toks == split(r.conn[1]) IN
         Some(\E k \in 1..Len(toks) :
                 eq_ignore_ascii_case(trim(toks[k]), UPGRADE_TOKEN))

unwrap_or(opt, default) == IF opt = None THEN default ELSE opt[1]

Locals0 ==
    [upgrade |-> FALSE, version |-> FALSE, accept |-> None,
     protocols |-> <<>>, extensions |-> <<>>,
     ret |-> Pending, log |-> <<>>, derived |-> <<>>]

\* Variant of begin: the request-target is checked before the Connection
\* header.
begin_path_first(r) ==
    IF r.path = None
    THEN Returned(Logged(Locals0, LogInvalidTarget), Err(Unit))
    ELSE IF ~unwrap_or(conn_upgrade(r), FALSE)
    THEN Returned(Locals0, Ok(None))
    ELSE Locals0

\* Variant of begin: the request-target is not looked at.
begin_any_path(r) ==
    IF ~unwrap_or(conn_upgrade(r), FALSE) THEN Returned(Locals0, Ok(None))
    ELSE Locals0

\* Lines 33-47: the Connection check, the request-target check, the locals.
begin(r) ==
    IF ~unwrap_or(conn_upgrade(r), FALSE) THEN Returned(Locals0, Ok(None))
    ELSE IF r.path = None
    THEN Returned(Logged(Locals0, LogInvalidTarget), Err(Unit))
    ELSE Locals0

\* Variant of on_key: the key bytes are not trimmed.
on_key_untrimmed(st, h) ==
    IF st.accept # None
    THEN Returned(Logged(st, LogDuplicateKey), Err(Unit))
    ELSE [st EXCEPT !.accept = Some(from_key_bytes(h.value)),
                    !.derived = Append(@, h.value)]

\* Variant of on_key: a later key replaces the earlier one.
on_key_overwrite(st, h) ==
    [st EXCEPT !.accept = Some(from_key_bytes(bytes_trim(h.value))),
               !.derived = Append(@, bytes_trim(h.value))]

\* Variant of on_key: a key is taken only once the version is confirmed.
on_key_after_version(st, h) ==
    IF st.accept # None
    THEN Returned(Logged(st, LogDuplicateKey), Err(Unit))
    ELSE IF ~st.version THEN st
    ELSE [st EXCEPT !.accept = Some(from_key_bytes(bytes_trim(h.value))),
                    !.derived = Append(@, bytes_trim(h.value))]

on_key(st, h) ==
    IF st.accept # None
    THEN Returned(Logged(st, LogDuplicateKey), Err(Unit))
    ELSE [st EXCEPT !.accept = Some(from_key_bytes(bytes_trim(h.value))),
                    !.derived = Append(@, bytes_trim(h.value))]

\* Variant of on_version: an unsupported version is skipped, not rejected.
on_version_lenient(st, h) ==
    IF bytes_trim(h.value) # VERSION_13 THEN st
    ELSE [st EXCEPT !.version = TRUE]

\* Variant of on_version: once a version header equal to 13 was seen, later
\* version headers are not looked at.
on_version_sticky(st, h) ==
    IF st.version THEN st
    ELSE IF bytes_trim(h.value) # VERSION_13
    THEN Returned(Logged(st, LogBadVersion(h.value)), Err(Unit))
    ELSE [st EXCEPT !.version = TRUE]

on_version(st, h) ==
    IF bytes_trim(h.value) # VERSION_13
    THEN Returned(Logged(st, LogBadVersion(h.value)), Err(Unit))
    ELSE [st EXCEPT !.version = TRUE]

\* Variant of on_protocol: the tokens of a header replace the earlier ones.
on_protocol_overwrite(st, h) ==
    LET tokens == from_utf8(h.value) IN
    IF tokens.tag = "Err"
    THEN Returned(Logged(st, LogBadProtocol), Err(Unit))
    ELSE [st EXCEPT !.protocols = tokens_of(tokens.val)]

\* Variant of on_protocol: the value is decoded lossily and never rejected.
on_protocol_lossy(st, h) ==
    [st EXCEPT !.protocols = @ \o tokens_of(from_utf8_lossy(h.value))]

on_protocol(st, h) ==
    LET tokens == from_utf8(h.value) IN
    IF tokens.tag = "Err"
    THEN Returned(Logged(st, LogBadProtocol), Err(Unit))
    ELSE [st EXCEPT !.protocols = @ \o tokens_of(tokens.val)]

\* Variant of on_extensions: the tokens go to the protocols list.
on_extensions_as_protocols(st, h) ==
    LET tokens == from_utf8(h.value) IN
    IF tokens.tag = "Err"
    THEN Returned(Logged(st, LogBadExtensions), Err(Unit))
    ELSE [st EXCEPT !.protocols = @ \o tokens_of(tokens.val)]

on_extensions(st, h) ==
    LET tokens == from_utf8(h.value) IN
    IF tokens.tag = "Err"
    THEN Returned(Logged(st, LogBadExtensions), Err(Unit))
    ELSE [st EXCEPT !.extensions = @ \o tokens_of(tokens.val)]

\* Variant of on_upgrade: another protocol's Upgrade header is skipped.
on_upgrade_ignore(st, h) ==
    IF ~eq_ignore_ascii_case(h.value, WEBSOCKET) THEN st
    ELSE [st EXCEPT !.upgrade = TRUE]

on_upgrade(st, h) ==
    IF ~eq_ignore_ascii_case(h.value, WEBSOCKET)
    THEN Returned(st, Ok(None))
    ELSE [st EXCEPT !.upgrade = TRUE]

\* Variant of header_kind: the names are compared byte for byte.
header_kind_exact(h) ==
    IF h.name = SEC_WEBSOCKET_KEY THEN "key"
    ELSE IF h.name = SEC_WEBSOCKET_VERSION THEN "version"
    ELSE IF h.name = SEC_WEBSOCKET_PROTOCOL THEN "protocol"
    ELSE IF h.name = SEC_WEBSOCKET_EXTENSIONS THEN "extensions"
    ELSE IF h.name = UPGRADE_HEADER THEN "upgrade"
    ELSE "other"

\* The if / else-if chain on h.name of the loop body.
header_kind(h) ==
    IF eq_ignore_ascii_case(h.name, SEC_WEBSOCKET_KEY) THEN "key"
    ELSE IF eq_ignore_ascii_case(h.name, SEC_WEBSOCKET_VERSION) THEN "version"
    ELSE IF eq_ignore_ascii_case(h.name, SEC_WEBSOCKET_PROTOCOL) THEN "protocol"
    ELSE IF eq_ignore_ascii_case(h.name, SEC_WEBSOCKET_EXTENSIONS)
    THEN "extensions"
    ELSE IF eq_ignore_ascii_case(h.name, UPGRADE_HEADER) THEN "upgrade"
    ELSE "other"

\* One iteration of `for h in req.all_headers()`.
scan_header(st, h) ==
    CASE header_kind(h) = "key" -> on_key(st, h)
      [] header_kind(h) = "version" -> on_version(st, h)
      [] header_kind(h) = "protocol" -> on_protocol(st, h)
      [] header_kind(h) = "extensions" -> on_extensions(st, h)
      [] header_kind(h) = "upgrade" -> on_upgrade(st, h)
      [] OTHER -> st

\* The loop: headers in order, left by the first return statement.
RECURSIVE scan_all(_, _, _)
scan_all(st, headers, k) ==
    IF k > Len(headers) \/ st.ret # Pending THEN st
    ELSE scan_all(scan_header(st, headers[k]), headers, k + 1)

\* Variant of finish: the Upgrade confirmation is not required.
finish_no_upgrade_check(st, r) ==
    IF r.has_body THEN Returned(Logged(st, LogPayload), Err(Unit))
    ELSE IF ~st.version \/ st.accept = None
    THEN Returned(Logged(st, LogNoRequired), Err(Unit))
    ELSE Returned([st EXCEPT !.accept = None],
                  Ok(Some([accept |-> st.accept[1],
                           protocols |-> st.protocols,
                           extensions |-> st.extensions])))

\* Variant of finish: a body is not looked at.
finish_no_body_check(st, r) ==
    IF ~st.upgrade THEN Returned(Logged(st, LogNoUpgrade), Err(Unit))
    ELSE IF ~st.version \/ st.accept = None
    THEN Returned(Logged(st, LogNoRequired), Err(Unit))
    ELSE Returned([st EXCEPT !.accept = None],
                  Ok(Some([accept |-> st.accept[1],
                           protocols |-> st.protocols,
                           extensions |-> st.extensions])))

\* Variant of finish: the Upgrade confirmation is checked before the body.
finish_upgrade_first(st, r) ==
    IF ~st.upgrade THEN Returned(Logged(st, LogNoUpgrade), Err(Unit))
    ELSE IF r.has_body THEN Returned(Logged(st, LogPayload), Err(Unit))
    ELSE IF ~st.version \/ st.accept = None
    THEN Returned(Logged(st, LogNoRequired), Err(Unit))
    ELSE Returned([st EXCEPT !.accept = None],
                  Ok(Some([accept |-> st.accept[1],
                           protocols |-> st.protocols,
                           extensions |-> st.extensions])))

\* Lines 86-102: the checks after the loop and the handshake.
finish(st, r) ==
    IF r.has_body THEN Returned(Logged(st, LogPayload), Err(Unit))
    ELSE IF ~st.upgrade THEN Returned(Logged(st, LogNoUpgrade), Err(Unit))
    ELSE IF ~st.version \/ st.accept = None
    THEN Returned(Logged(st, LogNoRequired), Err(Unit))
    ELSE Returned([st EXCEPT !.accept = None],
                  Ok(Some([accept |-> st.accept[1],
                           protocols |-> st.protocols,
                           extensions |-> st.extensions])))

\* A whole call: the final locals, the returned value and the side effects.
run(r) ==
    LET s0 == begin(r) IN
    IF s0.ret # Pending THEN s0
    ELSE LET s1 == scan_all(s0, r.headers, 1) IN
         IF s1.ret # Pending THEN s1 ELSE finish(s1, r)

get_handshake(r) == run(r).ret


(***************************************************************************)
(* Config (src/websocket/config.rs).  A Duration is <<secs, nanos>> as in  *)
(* Duration::new(secs, nanos).                                             *)
(***************************************************************************)
Duration_new(secs, nanos) == [secs |-> secs, nanos |-> nanos]

\* Variant of Config_new: the message timeout the setter's documentation
\* names, 25 seconds.
Config_new_documented ==
    [ping_interval |-> Duration_new(10, 0),
     message_timeout |-> Duration_new(25, 0),
     byte_timeout |-> Duration_new(30, 0),
     max_packet_size |-> 10 * (2 ^ 20)]

Config_new ==
    [ping_interval |-> Duration_new(10, 0),
     message_timeout |-> Duration_new(30, 0),
     byte_timeout |-> Duration_new(30, 0),
     max_packet_size |-> 10 * (2 ^ 20)]

set_ping_interval(c, dur) == [c EXCEPT !.ping_interval = dur]

\* A setter that keeps the message timeout from falling below the ping
\* interval.
set_message_timeout_clamped(c, dur) ==
    [c EXCEPT !.message_timeout =
        IF dur.secs < c.ping_interval.secs THEN c.ping_interval ELSE dur]

set_message_timeout(c, dur) == [c EXCEPT !.message_timeout = dur]

set_inactivity_timeout(c, dur) ==
    [c EXCEPT !.message_timeout = dur, !.byte_timeout = dur]

set_byte_timeout(c, dur) == [c EXCEPT !.byte_timeout = dur]

set_max_packet_size(c, size) == [c EXCEPT !.max_packet_size = size]

\* Arc::new(self.clone()): a copy of the current field values.
done(c) == c

(***************************************************************************)
(* Inputs                                                                  *)
(***************************************************************************)
MaxHeaders == 2
MaxExtraHeaders == 2
MaxSetterCalls == 3
MaxHandles == 2

Header(name, value) == [name |-> name, value |-> value]

\* Sec-WebSocket-Key: " k1\r\n"  and  sec-websocket-key: "k2"
HKey1 == Header(SEC_WEBSOCKET_KEY, <<32, 107, 49, 13, 10>>)
HKey2 ==
    Header(<<115, 101, 99, 45, 119, 101, 98, 115, 111, 99, 107, 101, 116,
             45, 107, 101, 121>>, <<107, 50>>)
\* Sec-WebSocket-Version: "13", " 13\r\n"  and  "8"
HVersion13 == Header(SEC_WEBSOCKET_VERSION, <<49, 51>>)
HVersion13Pad == Header(SEC_WEBSOCKET_VERSION, <<32, 49, 51, 13, 10>>)
HVersion8 == Header(SEC_WEBSOCKET_VERSION, <<56>>)
\* Sec-WebSocket-Protocol: "chat, ,superchat", "binary", and the byte 0xFF
HProtoChat ==
    Header(SEC_WEBSOCKET_PROTOCOL,
           <<99, 104, 97, 116, 44, 32, 44, 115, 117, 112, 101, 114, 99,
             104, 97, 116>>)
HProtoBinary == Header(SEC_WEBSOCKET_PROTOCOL, <<98, 105, 110, 97, 114, 121>>)
HProtoBad == Header(SEC_WEBSOCKET_PROTOCOL, <<255>>)
\* Sec-WebSocket-Extensions: " gz,br" followed by U+00A0 (0xC2 0xA0), and a
\* lone 0xC3, the first byte of a two-byte sequence
HExtGz == Header(SEC_WEBSOCKET_EXTENSIONS, <<32, 103, 122, 44, 98, 114, 194, 160>>)
HExtBad == Header(SEC_WEBSOCKET_EXTENSIONS, <<195>>)
\* Upgrade: "WebSocket"  and  "h2c"
HUpgradeWs == Header(UPGRADE_HEADER, <<87, 101, 98, 83, 111, 99, 107, 101, 116>>)
HUpgradeH2c == Header(UPGRADE_HEADER, <<104, 50, 99>>)
\* Host: "h"
HHost == Header(<<72, 111, 115, 116>>, <<104>>)

HeaderPool ==
    {HKey1, HKey2, HVersion13, HVersion13Pad, HVersion8, HProtoChat, HProtoBinary, HProtoBad,
     HExtGz, HExtBad, HUpgradeWs, HUpgradeH2c, HHost}

SeqsUpTo(S, n) == UNION {[1..m -> S] : m \in 0..n}

\* Header lists of at most MaxHeaders headers, and the three headers of a
\* plain handshake with at most MaxExtraHeaders more before and after them.
BaseHeaders == <<HUpgradeWs, HVersion13, HKey1>>
ShortHeaderLists == SeqsUpTo(HeaderPool, MaxHeaders)
LongHeaderLists ==
    UNION {UNION {{pre \o BaseHeaders \o post :
                      pre \in [1..a -> HeaderPool],
                      post \in [1..(n - a) -> HeaderPool]} :
                  a \in 0..n} :
           n \in 0..MaxExtraHeaders}

\* Connection: absent, "close, upgrades", "keep-alive, Upgrade"
ConnValues ==
    {None,
     Some(<<99, 108, 111, 115, 101, 44, 32, 117, 112, 103, 114, 97, 100,
            101, 115>>),
     Some(<<107, 101, 101, 112, 45, 97, 108, 105, 118, 101, 44, 32, 85,
            112, 103, 114, 97, 100, 101>>)}
\* The request-target: absent, or "/"
PathValues == {None, Some(<<47>>)}

\* Connection: keep-alive, Upgrade
ConnUpgrade ==
    Some(<<107, 101, 101, 112, 45, 97, 108, 105, 118, 101, 44, 32, 85,
           112, 103, 114, 97, 100, 101>>)
RootPath == Some(<<47>>)

\* Every Connection value, target and body flag with the short header lists;
\* the long lists with the Connection value and target that let the scan run.
Requests ==
    [conn : ConnValues, path : PathValues, has_body : BOOLEAN,
     headers : ShortHeaderLists]
    \cup [conn : {ConnUpgrade}, path : {RootPath}, has_body : BOOLEAN,
          headers : LongHeaderLists]

\* Setter arguments: 0 s and 5 s (both below every default); 0 and 64 KiB.
DurationValues == {Duration_new(0, 0), Duration_new(5, 0)}
SizeValues == {0, 2 ^ 16}

(***************************************************************************)
(* get_handshake as a state machine: one step for the checks before the    *)
(* loop, one per header scanned, one for the checks after the loop.        *)
(***************************************************************************)
Locals ==
    [upgrade |-> upgrade, version |-> version, accept |-> accept,
     protocols |-> protocols, extensions |-> extensions,
     ret |-> ret, log |-> log, derived |-> derived]

\* Store the locals st; the call is over once a return statement has run.
Store(st) ==
    /\ upgrade' = st.upgrade
    /\ version' = st.version
    /\ accept' = st.accept
    /\ protocols' = st.protocols
    /\ extensions' = st.extensions
    /\ ret' = st.ret
    /\ log' = st.log
    /\ derived' = st.derived

HsInit ==
    /\ req \in Requests
    /\ pc = "start"
    /\ i = 1
    /\ upgrade = FALSE
    /\ version = FALSE
    /\ accept = None
    /\ protocols = <<>>
    /\ extensions = <<>>
    /\ ret = Pending
    /\ log = <<>>
    /\ derived = <<>>

CfgIdle ==
    /\ cfg = Config_new
    /\ handles = <<>>
    /\ setters = 0
    /\ called = {}
    /\ reads = {}

Init == HsInit /\ CfgIdle

Begin ==
    /\ pc = "start"
    /\ LET st == begin(req) IN
       /\ Store(st)
       /\ pc' = IF st.ret = Pending THEN "scan" ELSE "done"
    /\ UNCHANGED <<req, i, cfgvars>>

\* The loop body on header i, when that header is of the given kind.
Scan(kind, st) ==
    /\ pc = "scan"
    /\ i <= Len(req.headers)
    /\ header_kind(req.headers[i]) = kind
    /\ Store(st)
    /\ i' = i + 1
    /\ pc' = IF st.ret = Pending THEN "scan" ELSE "done"
    /\ UNCHANGED <<req, cfgvars>>

ScanKey == Scan("key", on_key(Locals, req.headers[i]))

ScanVersion == Scan("version", on_version(Locals, req.headers[i]))

ScanProtocol == Scan("protocol", on_protocol(Locals, req.headers[i]))

ScanExtensions == Scan("extensions", on_extensions(Locals, req.headers[i]))

ScanUpgrade == Scan("upgrade", on_upgrade(Locals, req.headers[i]))

ScanOther == Scan("other", Locals)

Finish ==
    /\ pc = "scan"
    /\ i > Len(req.headers)
    /\ Store(finish(Locals, req))
    /\ pc' = "done"
    /\ UNCHANGED <<req, i, cfgvars>>

Next ==
    \/ Begin
    \/ ScanKey
    \/ ScanVersion
    \/ ScanProtocol
    \/ ScanExtensions
    \/ ScanUpgrade
    \/ ScanOther
    \/ Finish

Spec == Init /\ [][Next]_vars

(***************************************************************************)
(* get_handshake on every header list over a few headers                   *)
(***************************************************************************)
\* One header of each name the loop tells apart (the version twice, the
\* protocol header undecodable) and one it ignores; every list of them up to
\* one header more than the short lists, so that the three headers of a
\* handshake fit in any order; the Connection value and the target that let
\* the scan run.
CorePool ==
    {HKey1, HVersion13, HVersion8, HUpgradeWs, HProtoBad, HExtGz, HHost}
CoreHeaderLists == SeqsUpTo(CorePool, MaxHeaders + 1)
CoreRequests ==
    [conn : {ConnUpgrade}, path : {RootPath}, has_body : BOOLEAN,
     headers : CoreHeaderLists]

InitCore ==
    /\ req \in CoreRequests
    /\ pc = "start"
    /\ i = 1
    /\ upgrade = FALSE
    /\ version = FALSE
    /\ accept = None
    /\ protocols = <<>>
    /\ extensions = <<>>
    /\ ret = Pending
    /\ log = <<>>
    /\ derived = <<>>
    /\ CfgIdle

SpecCore == InitCore /\ [][Next]_vars


(***************************************************************************)
(* The Config builder as a state machine: the setters, in any order, and   *)
(* done(), which hands out one more handle.                                *)
(***************************************************************************)
CfgInit ==
    /\ cfg = Config_new
    /\ handles = <<>>
    /\ setters = 0
    /\ called = {}
    /\ reads = {}

\* No handshake call is in progress while the policy is being built.
HsIdle ==
    /\ req = [conn |-> None, path |-> None, has_body |-> FALSE,
              headers |-> <<>>]
    /\ pc = "start"
    /\ i = 1
    /\ upgrade = FALSE
    /\ version = FALSE
    /\ accept = None
    /\ protocols = <<>>
    /\ extensions = <<>>
    /\ ret = Pending
    /\ log = <<>>
    /\ derived = <<>>

\* A builder whose handles share its storage: a setter call would show
\* through every handle already handed out.
Setter_shared(name, c) ==
    /\ setters < MaxSetterCalls
    /\ cfg' = c
    /\ setters' = setters + 1
    /\ called' = called \cup {name}
    /\ handles' = [k \in 1..Len(handles) |-> c]
    /\ UNCHANGED <<reads, hsvars>>

\* A setter call on the builder: `self.<field> = <value>; self`.
Setter(name, c) ==
    /\ setters < MaxSetterCalls
    /\ cfg' = c
    /\ setters' = setters + 1
    /\ called' = called \cup {name}
    /\ UNCHANGED <<handles, reads, hsvars>>

PingInterval ==
    \E dur \in DurationValues :
        Setter("ping_interval", set_ping_interval(cfg, dur))

MessageTimeout ==
    \E dur \in DurationValues :
        Setter("message_timeout", set_message_timeout(cfg, dur))

InactivityTimeout ==
    \E dur \in DurationValues :
        Setter("inactivity_timeout", set_inactivity_timeout(cfg, dur))

ByteTimeout ==
    \E dur \in DurationValues :
        Setter("byte_timeout", set_byte_timeout(cfg, dur))

MaxPacketSize ==
    \E size \in SizeValues :
        Setter("max_packet_size", set_max_packet_size(cfg, size))

Done ==
    /\ Len(handles) < MaxHandles
    /\ handles' = Append(handles, done(cfg))
    /\ UNCHANGED <<cfg, setters, called, reads, hsvars>>

\* A connection task reads the four values through the handle it holds.
Read ==
    /\ \E k \in 1..Len(handles) : reads' = reads \cup {<<k, handles[k]>>}
    /\ UNCHANGED <<cfg, handles, setters, called, hsvars>>

CfgNext ==
    \/ PingInterval
    \/ MessageTimeout
    \/ InactivityTimeout
    \/ ByteTimeout
    \/ MaxPacketSize
    \/ Done
    \/ Read

InitConfig == CfgInit /\ HsIdle

SpecConfig == InitConfig /\ [][CfgNext]_vars


(***************************************************************************)
(* What the claims say about a request, stated on the request itself and   *)
(* not through the scan.                                                   *)
(***************************************************************************)
Lower(s) == [k \in 1..Len(s) |-> IF s[k] \in 65..90 THEN s[k] + 32 ELSE s[k]]

\* s from the first to the last of the positions in keep.
Between(s, keep) ==
    IF keep = {} THEN <<>>
    ELSE LET a == CHOOSE k \in keep : \A m \in keep : k <= m
             b == CHOOSE k \in keep : \A m \in keep : k >= m
         IN  SubSeq(s, a, b)

IsCrLfSpTab(b) == b = 13 \/ b = 10 \/ b = 32 \/ b = 9

\* s without its leading and trailing whitespace characters, and without its
\* leading and trailing CR, LF, space and tab bytes.
StripWhitespace(s) == Between(s, {k \in 1..Len(s) : ~is_whitespace(s[k])})
StripCrLfSpTab(s) == Between(s, {k \in 1..Len(s) : ~IsCrLfSpTab(s[k])})

\* The comma-separated pieces of s: piece j lies between comma j-1 and comma j.
CommaAt(s) == {k \in 1..Len(s) : s[k] = 44}
CutAt(s, j) ==
    IF j = 0 THEN 0
    ELSE IF j > Cardinality(CommaAt(s)) THEN Len(s) + 1
    ELSE CHOOSE p \in CommaAt(s) : Cardinality({q \in CommaAt(s) : q <= p}) = j
PieceOf(s, j) == SubSeq(s, CutAt(s, j - 1) + 1, CutAt(s, j) - 1)
PieceCount(s) == Cardinality(CommaAt(s)) + 1

\* The Connection value has a token equal to "upgrade", trimmed, any case.
HasUpgradeToken(conn) ==
    /\ conn # None
    /\ \E j \in 1..PieceCount(conn[1]) :
          Lower(StripWhitespace(PieceOf(conn[1], j))) = UPGRADE_TOKEN

Named(h, name) == Lower(h.name) = Lower(name)
IndexesOf(r, name) == {k \in 1..Len(r.headers) : Named(r.headers[k], name)}

IsWebsocket(h) == Lower(h.value) = WEBSOCKET
IsVersion13(h) == StripCrLfSpTab(h.value) = VERSION_13
IsText(h) == from_utf8(h.value).tag = "Ok"

IsHandshake(value) == value.tag = "Ok" /\ value.val # None

\* C1: a request whose Connection header is absent or has no "upgrade" token
\* gets Ok(None), whatever its target, body flag and headers are.
C1_NoUpgradeTokenIsNotApplicable ==
    (pc = "done" /\ ~HasUpgradeToken(req.conn)) => ret = Ok(None)

\* C1 witness: a Connection value without the token ("close, upgrades"), no
\* target, a body, two keys and a bad version: still Ok(None).
C1_Witness ==
    /\ pc = "done"
    /\ req.conn # None
    /\ ~HasUpgradeToken(req.conn)
    /\ req.path = None
    /\ req.has_body
    /\ Cardinality(IndexesOf(req, SEC_WEBSOCKET_KEY)) >= 2
    /\ ret = Ok(None)

\* The mandatory conditions of a handshake.
MandatoryConditions(r) ==
    /\ HasUpgradeToken(r.conn)
    /\ r.path # None
    /\ IndexesOf(r, UPGRADE_HEADER) # {}
    /\ \A k \in IndexesOf(r, UPGRADE_HEADER) : IsWebsocket(r.headers[k])
    /\ IndexesOf(r, SEC_WEBSOCKET_VERSION) # {}
    /\ \A k \in IndexesOf(r, SEC_WEBSOCKET_VERSION) : IsVersion13(r.headers[k])
    /\ Cardinality(IndexesOf(r, SEC_WEBSOCKET_KEY)) = 1
    /\ ~r.has_body

\* C2: a handshake is returned only for a request that meets every mandatory
\* condition at once.
C2_HandshakeOnlyIfAllConditions ==
    (pc = "done" /\ IsHandshake(ret)) => MandatoryConditions(req)

\* C2 witness: a handshake returned for a request with two Upgrade headers
\* and a padded version.
C2_Witness ==
    /\ pc = "done"
    /\ IsHandshake(ret)
    /\ Cardinality(IndexesOf(req, UPGRADE_HEADER)) >= 2
    /\ \E k \in 1..Len(req.headers) : req.headers[k] = HVersion13Pad


\* What makes the scan stop at header k of request r.
OtherUpgradeAt(r, k) ==
    Named(r.headers[k], UPGRADE_HEADER) /\ ~IsWebsocket(r.headers[k])
BadVersionAt(r, k) ==
    Named(r.headers[k], SEC_WEBSOCKET_VERSION) /\ ~IsVersion13(r.headers[k])
SecondKeyAt(r, k) ==
    /\ Named(r.headers[k], SEC_WEBSOCKET_KEY)
    /\ \E m \in 1..(k - 1) : Named(r.headers[m], SEC_WEBSOCKET_KEY)
BadTextAt(r, k) ==
    /\ Named(r.headers[k], SEC_WEBSOCKET_PROTOCOL)
          \/ Named(r.headers[k], SEC_WEBSOCKET_EXTENSIONS)
    /\ ~IsText(r.headers[k])
RejectsAt(r, k) == BadVersionAt(r, k) \/ SecondKeyAt(r, k) \/ BadTextAt(r, k)
StopsAt(r, k) == RejectsAt(r, k) \/ OtherUpgradeAt(r, k)

\* The request has the Connection token and a request-target: it is scanned.
Scanned(r) == r.path # None /\ HasUpgradeToken(r.conn)

AllText(r) ==
    \A k \in IndexesOf(r, SEC_WEBSOCKET_PROTOCOL)
             \cup IndexesOf(r, SEC_WEBSOCKET_EXTENSIONS) : IsText(r.headers[k])

\* The value of the first Sec-WebSocket-Key header, without its surrounding
\* CR, LF, space and tab.
FirstKey(r) ==
    LET keys == IndexesOf(r, SEC_WEBSOCKET_KEY)
        k == CHOOSE k \in keys : \A m \in keys : k <= m
    IN  StripCrLfSpTab(r.headers[k].value)

\* What C3 promises of the returned value and of the accept derivation.
PlainHandshake(r) ==
    /\ IsHandshake(ret)
    /\ ret.val[1].accept = from_key_bytes(FirstKey(r))
    /\ derived = <<FirstKey(r)>>
    /\ IndexesOf(r, SEC_WEBSOCKET_PROTOCOL) = {} => ret.val[1].protocols = <<>>
    /\ IndexesOf(r, SEC_WEBSOCKET_EXTENSIONS) = {}
          => ret.val[1].extensions = <<>>

\* C3 as stated: some Upgrade header equal to "websocket", some version
\* header equal to "13", exactly one key, no body, text in the list headers:
\* a handshake whose accept is derived once from the trimmed key.
C3_Original ==
    (/\ pc = "done"
     /\ Scanned(req)
     /\ \E k \in IndexesOf(req, UPGRADE_HEADER) : IsWebsocket(req.headers[k])
     /\ \E k \in IndexesOf(req, SEC_WEBSOCKET_VERSION) :
           IsVersion13(req.headers[k])
     /\ Cardinality(IndexesOf(req, SEC_WEBSOCKET_KEY)) = 1
     /\ ~req.has_body
     /\ AllText(req))
    => PlainHandshake(req)

\* C3 amended: the same with every Upgrade header equal to "websocket" and
\* every version header equal to "13" (at least one of each).
C3_HandshakeForValidRequest ==
    (pc = "done" /\ MandatoryConditions(req) /\ AllText(req))
    => PlainHandshake(req)

\* C3 witness: the plain handshake request, no list header, accepted with
\* empty lists and the accept of the trimmed key "k1".
C3_Witness ==
    /\ pc = "done"
    /\ req.headers = BaseHeaders
    /\ ret = Ok(Some([accept |-> from_key_bytes(<<107, 49>>),
                      protocols |-> <<>>, extensions |-> <<>>]))
    /\ derived = <<<<107, 49>>>>

\* C4 as stated: an Upgrade header naming another protocol gives Ok(None)
\* wherever it stands among the headers.
C4_Original ==
    (/\ pc = "done"
     /\ Scanned(req)
     /\ \E k \in 1..Len(req.headers) : OtherUpgradeAt(req, k))
    => ret = Ok(None)

\* C4 amended: it gives Ok(None) when no header before it is rejected (a
\* second key, a version other than 13, an undecodable list header); what
\* follows it, and a body, are overridden.
C4_OtherUpgradeOverridesWhatFollows ==
    (/\ pc = "done"
     /\ Scanned(req)
     /\ \E k \in 1..Len(req.headers) :
           /\ OtherUpgradeAt(req, k)
           /\ \A m \in 1..(k - 1) : ~RejectsAt(req, m))
    => (ret = Ok(None) /\ log = <<>>)

\* C4 witness: Upgrade: h2c first, then a rejected header, and a body.
C4_Witness ==
    /\ pc = "done"
    /\ Scanned(req)
    /\ req.has_body
    /\ Len(req.headers) >= 2
    /\ OtherUpgradeAt(req, 1)
    /\ \E m \in 2..Len(req.headers) : RejectsAt(req, m)
    /\ ret = Ok(None)

\* C5 as stated: a scanned request with two Sec-WebSocket-Key headers is
\* rejected as a duplicate key, and the accept is derived once only.
C5_Original ==
    (/\ pc = "done"
     /\ Scanned(req)
     /\ Cardinality(IndexesOf(req, SEC_WEBSOCKET_KEY)) >= 2)
    => (/\ ret.tag = "Err"
        /\ log = <<LogDuplicateKey>>
        /\ Len(derived) = 1)

\* C5 amended: it is, when no header before the second key stops the scan
\* (another protocol's Upgrade, a version other than 13, an undecodable list
\* header); the first key's accept is kept and nothing is derived again.
C5_SecondKeyRejected ==
    (/\ pc = "done"
     /\ Scanned(req)
     /\ \E k \in 1..Len(req.headers) :
           /\ SecondKeyAt(req, k)
           /\ \A m \in 1..(k - 1) : ~StopsAt(req, m))
    => (/\ ret = Err(Unit)
        /\ log = <<LogDuplicateKey>>
        /\ derived = <<FirstKey(req)>>
        /\ accept = Some(from_key_bytes(FirstKey(req))))

\* C5 witness: the same key header twice, rejected as a duplicate.
C5_Witness ==
    /\ pc = "done"
    /\ \E k \in 2..Len(req.headers) :
          /\ SecondKeyAt(req, k)
          /\ \E m \in 1..(k - 1) : req.headers[m] = req.headers[k]
    /\ ret = Err(Unit)
    /\ log = <<LogDuplicateKey>>
    /\ Len(derived) = 1

\* The error value e carries the rejected header value v.
Carries(e, v) ==
    /\ e # Unit
    /\ e = v \/ e = StripCrLfSpTab(v) \/ e = from_utf8_lossy(v)

C7_BodyRejected ==
    (/\ pc = "done"
     /\ req.has_body
     /\ MandatoryConditions([req EXCEPT !.has_body = FALSE])
     /\ AllText(req))
    => (/\ ret = Err(Unit)
        /\ log = <<LogPayload>>)

\* C7 witness: the plain handshake request with a protocol header and a body.
C7_Witness ==
    /\ pc = "done"
    /\ req.has_body
    /\ MandatoryConditions([req EXCEPT !.has_body = FALSE])
    /\ IndexesOf(req, SEC_WEBSOCKET_PROTOCOL) # {}
    /\ AllText(req)
    /\ ret = Err(Unit)
    /\ log = << <<"Websocket handshake has payload", <<>>>> >>

\* The token list of a text: its comma-separated pieces, each without its
\* surrounding whitespace, the empty ones left out, in order.
NonEmpty(s) == Len(s) > 0
StrippedPieces(text) ==
    [j \in 1..PieceCount(text) |-> StripWhitespace(PieceOf(text, j))]
TokenList(text) == SelectSeq(StrippedPieces(text), NonEmpty)

\* The token lists of the headers lo..hi of r with the given name, one after
\* the other in header order.
RECURSIVE TokensIn(_, _, _, _)
TokensIn(r, name, lo, hi) ==
    IF lo > hi THEN <<>>
    ELSE (IF Named(r.headers[lo], name)
          THEN TokenList(from_utf8(r.headers[lo].value).val)
          ELSE <<>>) \o TokensIn(r, name, lo + 1, hi)

IsToken(s) ==
    /\ Len(s) > 0
    /\ ~is_whitespace(s[1])
    /\ ~is_whitespace(s[Len(s)])
    /\ \A k \in 1..Len(s) : s[k] # 44

\* C8: the protocols of a returned handshake are the token lists of all the
\* Sec-WebSocket-Protocol headers, concatenated in header order, and each
\* element is a non-empty trimmed token.
C8_ProtocolsAreTheTokenLists ==
    (pc = "done" /\ IsHandshake(ret))
    => (/\ ret.val[1].protocols
              = TokensIn(req, SEC_WEBSOCKET_PROTOCOL, 1, Len(req.headers))
        /\ \A k \in 1..Len(ret.val[1].protocols) :
              IsToken(ret.val[1].protocols[k]))

\* C8 witness: "chat, ,superchat" before the handshake headers and "binary"
\* after them give [chat, superchat, binary].
C8_Witness ==
    /\ pc = "done"
    /\ IsHandshake(ret)
    /\ req.headers = <<HProtoChat>> \o BaseHeaders \o <<HProtoBinary>>
    /\ ret.val[1].protocols =
          << <<99, 104, 97, 116>>,
             <<115, 117, 112, 101, 114, 99, 104, 97, 116>>,
             <<98, 105, 110, 97, 114, 121>> >>

\* The debug record of an undecodable list header.
BadTextRecord(h) ==
    IF Named(h, SEC_WEBSOCKET_PROTOCOL) THEN LogBadProtocol ELSE LogBadExtensions

\* C9 as stated: a scanned request with an undecodable protocol or
\* extensions header fails with the invalid-encoding rejection.
C9_Original ==
    (/\ pc = "done"
     /\ Scanned(req)
     /\ \E k \in 1..Len(req.headers) : BadTextAt(req, k))
    => (/\ ret.tag = "Err"
        /\ \E k \in 1..Len(req.headers) :
              BadTextAt(req, k) /\ log = <<BadTextRecord(req.headers[k])>>)

\* C9 amended: it does when no header before it stops the scan, and then the
\* lists hold the tokens of the earlier headers only; in every case no
\* handshake is returned.
C9_BadTextRejected ==
    \A k \in 1..Len(req.headers) :
        (pc = "done" /\ Scanned(req) /\ BadTextAt(req, k))
        => (/\ ~IsHandshake(ret)
            /\ (\A m \in 1..(k - 1) : ~StopsAt(req, m))
               => (/\ ret = Err(Unit)
                   /\ log = <<BadTextRecord(req.headers[k])>>
                   /\ protocols
                         = TokensIn(req, SEC_WEBSOCKET_PROTOCOL, 1, k - 1)
                   /\ extensions
                         = TokensIn(req, SEC_WEBSOCKET_EXTENSIONS, 1, k - 1)))

\* C9 witness: an undecodable protocol header after a decodable one.
C9_Witness ==
    /\ pc = "done"
    /\ Len(req.headers) >= 2
    /\ req.headers[1] = HProtoBinary
    /\ req.headers[2] = HProtoBad
    /\ ret = Err(Unit)
    /\ log = <<LogBadProtocol>>
    /\ protocols = <<<<98, 105, 110, 97, 114, 121>>>>

\* The defaults, in seconds, nanoseconds and bytes.
DefaultPolicy ==
    [ping_interval |-> [secs |-> 10, nanos |-> 0],
     message_timeout |-> [secs |-> 30, nanos |-> 0],
     byte_timeout |-> [secs |-> 30, nanos |-> 0],
     max_packet_size |-> 10485760]

ConfigFields ==
    {"ping_interval", "message_timeout", "byte_timeout", "max_packet_size"}

\* The builder step stored exactly `value` in the fields `written` and left
\* every other field as it was.
Wrote(written, value) ==
    \A f \in ConfigFields :
        cfg'[f] = IF f \in written THEN value ELSE cfg[f]

\* C11: whatever setter calls came before, a setter call stores its argument
\* unchanged in its declared field(s) and leaves the other fields alone:
\* ping_interval, message_timeout, byte_timeout and max_packet_size write the
\* field of their name, inactivity_timeout writes message_timeout and
\* byte_timeout.  No argument (zero, or a timeout below the ping interval) is
\* adjusted.
C11_SettersWriteOnlyTheirFields ==
    [][/\ \A dur \in DurationValues :
            /\ Setter("ping_interval", set_ping_interval(cfg, dur))
                  => Wrote({"ping_interval"}, dur)
            /\ Setter("message_timeout", set_message_timeout(cfg, dur))
                  => Wrote({"message_timeout"}, dur)
            /\ Setter("inactivity_timeout", set_inactivity_timeout(cfg, dur))
                  => Wrote({"message_timeout", "byte_timeout"}, dur)
            /\ Setter("byte_timeout", set_byte_timeout(cfg, dur))
                  => Wrote({"byte_timeout"}, dur)
       /\ \A size \in SizeValues :
            Setter("max_packet_size", set_max_packet_size(cfg, size))
                => Wrote({"max_packet_size"}, size)]_vars

\* C11 witness: after inactivity_timeout(5 s), message_timeout(0 s) was
\* accepted although it is zero and below the 10 s ping interval; the byte
\* timeout is still the 5 s of the earlier call.
C11_Witness ==
    /\ called = {"inactivity_timeout", "message_timeout"}
    /\ cfg.ping_interval = [secs |-> 10, nanos |-> 0]
    /\ cfg.message_timeout = [secs |-> 0, nanos |-> 0]
    /\ cfg.byte_timeout = [secs |-> 5, nanos |-> 0]
    /\ cfg.max_packet_size = 10485760

\* Every handle handed out so far keeps its values across the step.
HandlesKept == \A k \in 1..Len(handles) : handles'[k] = handles[k]

\* A handle handed out by the step holds the values the builder had.
NewHandleIsSnapshot ==
    Len(handles') > Len(handles)
    => (/\ Len(handles') = Len(handles) + 1
        /\ \A f \in ConfigFields : handles'[Len(handles')][f] = cfg[f])

\* All reads of one handle returned the same values.
ReadsAgree ==
    \A r1 \in reads : \A r2 \in reads : r1[1] = r2[1] => r1[2] = r2[2]

\* C12: a handle returned by done() is a snapshot of the builder's fields at
\* that moment and never changes: under every interleaving of setter calls,
\* done() calls and reads, all reads of one handle return the same values, and
\* a setter call after a finalize shows only in handles finalized later.
C12_HandleIsFrozenSnapshot ==
    /\ []ReadsAgree
    /\ [][HandlesKept /\ NewHandleIsSnapshot]_vars

\* C12 witness: a handle finalized before any setter call, a second one
\* finalized after ping_interval(5 s), a later max_packet_size(0) on the
\* builder, and both handles read by connection tasks.
C12_Witness ==
    /\ Len(handles) = 2
    /\ handles[1] = DefaultPolicy
    /\ handles[2] = [DefaultPolicy EXCEPT !.ping_interval.secs = 5]
    /\ cfg = [DefaultPolicy EXCEPT !.ping_interval.secs = 5,
                                   !.max_packet_size = 0]
    /\ reads = {<<1, handles[1]>>, <<2, handles[2]>>}

\* C13: as long as neither message_timeout nor inactivity_timeout was called
\* on the builder, its message timeout is the 25 seconds that the
\* documentation of message_timeout gives as the default.
C13_DocumentedMessageTimeout ==
    (called \cap {"message_timeout", "inactivity_timeout"} = {})
    => cfg.message_timeout = [secs |-> 25, nanos |-> 0]

(***************************************************************************)
(* The order of the checks                                                 *)
(***************************************************************************)
\* C15: a request with the Connection token and no request-target is
\* rejected as having an invalid target before any header is scanned,
\* whatever its headers are: the scan index has not moved, no accept was
\* derived, no list was filled.
C15_NoTargetRejectedBeforeScan ==
    (pc = "done" /\ HasUpgradeToken(req.conn) /\ req.path = None)
    => (/\ ret = Err(Unit)
        /\ log = <<LogInvalidTarget>>
        /\ i = 1
        /\ derived = <<>>
        /\ ~upgrade /\ ~version /\ accept = None
        /\ protocols = <<>> /\ extensions = <<>>)

\* C15 witness: no request-target and `Upgrade: h2c` as the first header:
\* rejected, not Ok(None).
C15_Witness ==
    /\ pc = "done"
    /\ req.conn = ConnUpgrade
    /\ req.path = None
    /\ Len(req.headers) >= 1
    /\ req.headers[1] = HUpgradeH2c
    /\ ret = Err(Unit)
    /\ log = << <<"Invalid request-target for websocket request", <<>>>> >>

\* The scan runs over every header: the request is scanned and no header is
\* rejected or names another protocol.
ScanCompletes(r) ==
    Scanned(r) /\ \A k \in 1..Len(r.headers) : ~StopsAt(r, k)

\* The call failed and emitted exactly this one debug message.
FailedWith(message) == ret = Err(Unit) /\ log = << <<message, <<>>>> >>

\* C16: after a scan that ran over every header the checks come in a fixed
\* order and only the first failing one is reported: a body, whatever else
\* is missing; else a missing Upgrade header, whatever else is missing; else
\* a missing version or key header.
C16_PostScanChecksInOrder ==
    (pc = "done" /\ ScanCompletes(req))
    => IF req.has_body
       THEN FailedWith("Websocket handshake has payload")
       ELSE IF IndexesOf(req, UPGRADE_HEADER) = {}
       THEN FailedWith("No upgrade header for a websocket")
       ELSE IF \/ IndexesOf(req, SEC_WEBSOCKET_VERSION) = {}
               \/ IndexesOf(req, SEC_WEBSOCKET_KEY) = {}
       THEN FailedWith("No required headers for a websocket")
       ELSE IsHandshake(ret) /\ log = <<>>

\* C16 witness: a body, and neither an Upgrade nor a version header: only
\* the payload is reported.
C16_Witness ==
    /\ pc = "done"
    /\ req.has_body
    /\ req.headers = <<HKey1>>
    /\ Scanned(req)
    /\ ret = Err(Unit)
    /\ log = <<LogPayload>>

(***************************************************************************)
(* Requests that differ in one respect                                     *)
(***************************************************************************)
\* Runs of CR, LF, space and tab to put around a header value.
Paddings == {<<>>, <<32>>, <<9>>, <<13, 10>>}

\* The request with header j's value between the runs before and after.
Padded(r, j, before, after) ==
    [r EXCEPT !.headers[j].value = before \o @ \o after]

\* C17: putting CR, LF, space or tab before or after the value of an Upgrade,
\* Sec-WebSocket-Version or Sec-WebSocket-Key header does not change what
\* get_handshake returns.
C17_PaddingChangesNothing ==
    pc = "done"
    => \A j \in IndexesOf(req, UPGRADE_HEADER)
                 \cup IndexesOf(req, SEC_WEBSOCKET_VERSION)
                 \cup IndexesOf(req, SEC_WEBSOCKET_KEY) :
          \A before \in Paddings : \A after \in Paddings :
              get_handshake(Padded(req, j, before, after)) = ret

(***************************************************************************)
(* Repeated headers                                                        *)
(***************************************************************************)
\* C19: an earlier confirmation does not protect a later occurrence.  When
\* the scan is at a version header other than 13 the call ends there with a
\* rejection, and at an Upgrade header other than "websocket" it ends there
\* with Ok(None), whatever was confirmed before; at a version header equal
\* to 13, or an Upgrade header equal to "websocket", the scan goes on, however
\* many came before; at a key header after an earlier key it ends with a
\* rejection.
C19_ConfirmationsAreNotSticky ==
    [][(pc = "scan" /\ i <= Len(req.headers))
       => /\ BadVersionAt(req, i)
               => (pc' = "done" /\ ret' = Err(Unit) /\ i' = i + 1)
          /\ OtherUpgradeAt(req, i)
               => (pc' = "done" /\ ret' = Ok(None) /\ i' = i + 1)
          /\ (Named(req.headers[i], SEC_WEBSOCKET_VERSION)
                 /\ IsVersion13(req.headers[i]))
               => (pc' = "scan" /\ ret' = Pending /\ version')
          /\ (Named(req.headers[i], UPGRADE_HEADER)
                 /\ IsWebsocket(req.headers[i]))
               => (pc' = "scan" /\ ret' = Pending /\ upgrade')
          /\ (Named(req.headers[i], SEC_WEBSOCKET_KEY) /\ accept # None)
               => (pc' = "done" /\ ret' = Err(Unit))]_vars

\* C19 witness: two Upgrade headers equal to "websocket", a version header
\* equal to 13 and a key were accepted, and the version header other than 13
\* that came last was rejected although the version was confirmed.
C19_Witness ==
    /\ pc = "done"
    /\ req.headers = <<HUpgradeWs, HUpgradeWs, HVersion13, HKey1, HVersion8>>
    /\ upgrade /\ version
    /\ ret = Err(Unit)
    /\ log = << <<"Bad websocket version {:?}", <<56>>>> >>

\* The header with the names Sec-WebSocket-Protocol and
\* Sec-WebSocket-Extensions exchanged, and the request with every header so
\* renamed.
Renamed(h) ==
    IF Named(h, SEC_WEBSOCKET_PROTOCOL)
    THEN [h EXCEPT !.name = SEC_WEBSOCKET_EXTENSIONS]
    ELSE IF Named(h, SEC_WEBSOCKET_EXTENSIONS)
    THEN [h EXCEPT !.name = SEC_WEBSOCKET_PROTOCOL]
    ELSE h
ListsRenamed(r) ==
    [r EXCEPT !.headers = [k \in 1..Len(r.headers) |-> Renamed(r.headers[k])]]

\* The returned value with the two lists of a handshake exchanged.
ListsExchanged(value) ==
    IF IsHandshake(value)
    THEN Ok(Some([accept |-> value.val[1].accept,
                  protocols |-> value.val[1].extensions,
                  extensions |-> value.val[1].protocols]))
    ELSE value

\* C18: renaming every Sec-WebSocket-Protocol header to
\* Sec-WebSocket-Extensions and every Sec-WebSocket-Extensions header to
\* Sec-WebSocket-Protocol exchanges the two lists of the returned handshake
\* and changes nothing else of the returned value; each list of a handshake
\* holds the tokens of the headers of its own name only.
C18_ProtocolsAndExtensionsAlike ==
    pc = "done"
    => (/\ get_handshake(ListsRenamed(req)) = ListsExchanged(ret)
        /\ IsHandshake(ret)
              => (/\ ret.val[1].protocols
                        = TokensIn(req, SEC_WEBSOCKET_PROTOCOL,
                                   1, Len(req.headers))
                  /\ ret.val[1].extensions
                        = TokensIn(req, SEC_WEBSOCKET_EXTENSIONS,
                                   1, Len(req.headers))))

\* C18 witness: protocols [chat, superchat] and extensions [gz, br]; with
\* the names exchanged the protocols are [gz, br].
C18_Witness ==
    /\ pc = "done"
    /\ req.headers = <<HProtoChat>> \o BaseHeaders \o <<HExtGz>>
    /\ IsHandshake(ret)
    /\ ret.val[1].protocols
          = << <<99, 104, 97, 116>>,
               <<115, 117, 112, 101, 114, 99, 104, 97, 116>> >>
    /\ ret.val[1].extensions = << <<103, 122>>, <<98, 114>> >>
    /\ get_handshake(ListsRenamed(req)).val[1].protocols
          = << <<103, 122>>, <<98, 114>> >>

\* The request with its headers in the order p[1], p[2], ...
Permuted(r, p) ==
    [r EXCEPT !.headers = [k \in 1..Len(r.headers) |-> r.headers[p[k]]]]

OutcomeKind(value) ==
    IF IsHandshake(value) THEN "handshake"
    ELSE IF value.tag = "Err" THEN "rejection"
    ELSE "not applicable"

\* C14: for a scanned request none of whose Upgrade headers names another
\* protocol, every permutation of the header list gives the same kind of
\* outcome (a handshake or a rejection) and, for a handshake, the same accept
\* value.
C14_HeaderOrderDoesNotMatter ==
    (/\ pc = "done"
     /\ Scanned(req)
     /\ \A k \in 1..Len(req.headers) : ~OtherUpgradeAt(req, k))
    => \A p \in Permutations(1..Len(req.headers)) :
          LET other == get_handshake(Permuted(req, p)) IN
          /\ OutcomeKind(other) = OutcomeKind(ret)
          /\ OutcomeKind(ret) \in {"handshake", "rejection"}
          /\ IsHandshake(ret) => other.val[1].accept = ret.val[1].accept

\* C14 witness: key, version, Upgrade in this order give a handshake, and so
\* does the reverse order, with the same accept value.
C14_Witness ==
    /\ pc = "done"
    /\ req.headers = <<HKey1, HVersion13, HUpgradeWs>>
    /\ IsHandshake(ret)
    /\ get_handshake([req EXCEPT !.headers = BaseHeaders]) = ret

Upper(s) == [k \in 1..Len(s) |-> IF s[k] \in 97..122 THEN s[k] - 32 ELSE s[k]]

\* The header has one of the five names the scan looks for, in any case.
Recognised(h) ==
    \/ Named(h, SEC_WEBSOCKET_KEY)
    \/ Named(h, SEC_WEBSOCKET_VERSION)
    \/ Named(h, SEC_WEBSOCKET_PROTOCOL)
    \/ Named(h, SEC_WEBSOCKET_EXTENSIONS)
    \/ Named(h, UPGRADE_HEADER)

\* Headers of other names: Host, and Upgrade-Insecure-Requests, whose name
\* begins like a recognised one.
OtherHeaders ==
    {HHost,
     Header(<<85, 112, 103, 114, 97, 100, 101, 45, 73, 110, 115, 101, 99, 117, 114, 101, 45, 82, 101, 113, 117, 101, 115, 116, 115>>, <<49>>)}

WithName(r, j, name) == [r EXCEPT !.headers[j].name = name]
InsertedAt(r, j, h) ==
    [r EXCEPT !.headers = SubSeq(@, 1, j - 1) \o <<h>> \o SubSeq(@, j, Len(@))]
RemovedAt(r, j) ==
    [r EXCEPT !.headers = SubSeq(@, 1, j - 1) \o SubSeq(@, j + 1, Len(@))]

\* C20: what get_handshake returns does not change when the name of a
\* recognised header is put in upper or in lower case, when a header of
\* another name is inserted at any position, or when a header of another
\* name is removed; the Connection value, the target and the body flag stay
\* as they are.
C20_NameCaseAndOtherHeaders ==
    pc = "done"
    => (/\ \A j \in 1..Len(req.headers) :
              IF Recognised(req.headers[j])
              THEN /\ get_handshake(WithName(req, j,
                                        Upper(req.headers[j].name))) = ret
                   /\ get_handshake(WithName(req, j,
                                        Lower(req.headers[j].name))) = ret
              ELSE get_handshake(RemovedAt(req, j)) = ret
        /\ \A j \in 1..(Len(req.headers) + 1) : \A h \in OtherHeaders :
              ~Recognised(h) /\ get_handshake(InsertedAt(req, j, h)) = ret)

\* C20 witness: the handshake of Upgrade, version and key is also returned
\* with the key header named SEC-WEBSOCKET-KEY and Host inserted before it.
C20_Witness ==
    /\ pc = "done"
    /\ req.headers = BaseHeaders
    /\ IsHandshake(ret)
    /\ get_handshake(InsertedAt(WithName(req, 3, Upper(SEC_WEBSOCKET_KEY)),
                                3, HHost)) = ret

====
